---- MODULE Spec2Model ----
(***************************************************************************)
(* Model of HindsightExperienceReplayBuffer                                *)
(* (stable_baselines3/her/replay_buffer.py).                               *)
(*                                                                         *)
(* The buffer is single threaded: add() and sample() run to completion,    *)
(* so each is one action.  A random draw of numpy is a nondeterministic    *)
(* choice over the values the draw can produce.                            *)
(*                                                                         *)
(* A flat observation is the tuple <<achieved_goal, desired_goal>>; the    *)
(* environment's converters turn it into a record and back.  Indices of    *)
(* sequences are 1-based here: transition i of the model is the code's     *)
(* transition_idx = i - 1.  Storage arrays keep the code's 0-based slots   *)
(* and rows.  The 'observation' sub-field of an observation is carried     *)
(* along untouched by every operation and is left out.                     *)
(*                                                                         *)
(* writelog, flushed and last_call are history: they record what the       *)
(* calls wrote, flushed and returned; the buffer's behaviour does not      *)
(* depend on them (flushed.count only bounds the length of a run).         *)
(***************************************************************************)
EXTENDS Integers, Sequences, FiniteSets, TLC

\* ---------------------------------------------------------------- bounds
BufferSize == 4        \* buffer_size passed to the constructor
MaxEpisodeLen == 2     \* max_episode_len passed to the constructor
NSampledGoal == 1      \* n_sampled_goal passed to the constructor
MaxGoal == 2           \* goals of the environment are 1..MaxGoal
MaxEpisodes == 3       \* episodes flushed in one run of the model
MaxBatch == 1          \* largest batch_size passed to sample()
MaxAction == 1         \* actions of the environment are 1..MaxAction
MaxBatchRows == 2      \* largest batch_size in the runs with repeated slots
MaxEpisodesBatch == 2  \* episodes flushed in the runs with repeated slots

Goals == 1..MaxGoal
Actions == 1..MaxAction
Strategies == {"future", "final", "episode", "random"}

VARIABLES
    add_her_while_sampling,   \* constructor flag (lazy mode when TRUE)
    goal_selection_strategy,  \* constructor argument
    episode_transitions,      \* the accumulator
    observations,             \* slot -> obs (flat) / slot -> row -> obs (per episode)
    next_observations,        \* slot -> obs (flat mode only)
    actions,
    rewards,
    dones,
    n_episode_steps,          \* slot -> length (per-episode mode only)
    pos,
    full,
    writelog,                 \* history: every slot write, in order
    flushed,                  \* history: the most recent flush
    last_call                 \* the most recent call and what it returned

vars == <<add_her_while_sampling, goal_selection_strategy, episode_transitions,
          observations, next_observations, actions, rewards, dones,
          n_episode_steps, pos, full, writelog, flushed, last_call>>

config == <<add_her_while_sampling, goal_selection_strategy>>

\* ------------------------------------------------- environment interface
\* env.convert_obs_to_dict: flat observation -> named sub-fields
convert_obs_to_dict(o) == [achieved_goal |-> o[1], desired_goal |-> o[2]]

\* env.convert_dict_to_obs: named sub-fields -> flat observation
convert_dict_to_obs(d) == <<d.achieved_goal, d.desired_goal>>

\* env.compute_reward: sparse goal reward, 0 on success and -1 otherwise
compute_reward(achieved_goal, desired_goal) ==
    IF achieved_goal = desired_goal THEN 0 ELSE -1

\* ------------------------------------------------------------- __init__
ZeroObs == <<0, 0>>

\* number of slots: full_idx of sample(), the wrap bound of _add_transition
Capacity(lazy) == IF lazy THEN BufferSize \div MaxEpisodeLen ELSE BufferSize

Slots(lazy) == 0..(Capacity(lazy) - 1)

ObsInit(lazy) ==
    IF lazy THEN [s \in Slots(lazy) |-> [r \in 0..MaxEpisodeLen |-> ZeroObs]]
            ELSE [s \in Slots(lazy) |-> ZeroObs]

ArrInit(lazy, zero) ==
    IF lazy THEN [s \in Slots(lazy) |-> [r \in 0..(MaxEpisodeLen - 1) |-> zero]]
            ELSE [s \in Slots(lazy) |-> zero]

NoCall == [op |-> "init", done |-> FALSE, err |-> "none", draws |-> <<>>, rows |-> <<>>]

NoFlush == [episode |-> <<>>, pos0 |-> 0, full0 |-> FALSE, start |-> 0,
            err |-> "none", count |-> 0]

\* pos = 0 and full = False come from BaseBuffer.__init__; the arrays are
\* np.zeros in the layout of the mode.
Init ==
    /\ add_her_while_sampling \in BOOLEAN
    /\ goal_selection_strategy \in Strategies
    /\ episode_transitions = <<>>
    /\ observations = ObsInit(add_her_while_sampling)
    /\ next_observations = [s \in Slots(FALSE) |-> ZeroObs]
    /\ actions = ArrInit(add_her_while_sampling, 0)
    /\ rewards = ArrInit(add_her_while_sampling, 0)
    /\ dones = ArrInit(add_her_while_sampling, FALSE)
    /\ n_episode_steps = [s \in Slots(TRUE) |-> 0]
    /\ pos = 0
    /\ full = FALSE
    /\ writelog = <<>>
    /\ flushed = NoFlush
    /\ last_call = NoCall

\* ------------------------------------------------------ _add_transition
\* The storage as one value, so that a flush can be computed write by write.
Buffer ==
    [observations |-> observations, next_observations |-> next_observations,
     actions |-> actions, rewards |-> rewards, dones |-> dones,
     n_episode_steps |-> n_episode_steps, pos |-> pos, full |-> full,
     writelog |-> writelog, err |-> "none"]

\* (variant: full is cleared by a write that does not wrap)
AdvanceClearsFull(b, capacity) ==
    IF b.pos + 1 = capacity
    THEN [b EXCEPT !.full = TRUE, !.pos = 0]
    ELSE [b EXCEPT !.full = FALSE, !.pos = b.pos + 1]

\* (variant: the wrap comes one slot early)
AdvanceEarly(b, capacity) ==
    IF b.pos + 1 >= capacity - 1
    THEN [b EXCEPT !.full = TRUE, !.pos = 0]
    ELSE [b EXCEPT !.pos = b.pos + 1]

\* pos += 1; if pos == capacity: full = True; pos = 0
Advance(b, capacity) ==
    IF b.pos + 1 = capacity
    THEN [b EXCEPT !.full = TRUE, !.pos = 0]
    ELSE [b EXCEPT !.pos = b.pos + 1]

\* (variant: once full, the oldest transitions are kept)
AddTransitionFlatKeep(b, tr, meta) ==
    LET p == b.pos
        b0 == [b EXCEPT !.writelog = Append(@, [content |-> tr,
                                                relabeled |-> meta.relabeled,
                                                src |-> meta.src,
                                                goal |-> meta.goal,
                                                slot |-> p])]
        b1 == [b0 EXCEPT !.observations[p] = tr.obs,
                         !.next_observations[p] = tr.next_obs,
                         !.actions[p] = tr.action,
                         !.rewards[p] = tr.reward,
                         !.dones[p] = tr.done]
    IN  Advance(IF b.full THEN b0 ELSE b1, BufferSize)

\* flat branch: one transition into slot pos.  meta is history only.
AddTransitionFlat(b, tr, meta) ==
    LET p == b.pos
        b1 == [b EXCEPT !.observations[p] = tr.obs,
                        !.next_observations[p] = tr.next_obs,
                        !.actions[p] = tr.action,
                        !.rewards[p] = tr.reward,
                        !.dones[p] = tr.done,
                        !.writelog = Append(@, [content |-> tr,
                                                relabeled |-> meta.relabeled,
                                                src |-> meta.src,
                                                goal |-> meta.goal,
                                                slot |-> p])]
    IN  Advance(b1, BufferSize)

\* len(obs.shape) of the zipped episode: np.array over observations of
\* shape (n_envs, obs_dim), the pairs, has 3 dimensions; over scalar
\* observations, the 1-tuples, it has 1.
EpisodeObsNdim(ep) ==
    IF \A i \in DOMAIN ep : Len(ep[i].obs) = 2 THEN 3 ELSE 1

\* (variant: the shape is checked after the slot has been written)
AddTransitionEpisodeLate(b, ep) ==
    LET p == b.pos
        len_episode == Len(ep)
        b1 == [b EXCEPT
                 !.observations[p] =
                     [r \in 0..MaxEpisodeLen |->
                         IF r < len_episode THEN ep[r + 1].obs
                         ELSE IF r = len_episode THEN ep[len_episode].next_obs
                         ELSE @[r]],
                 !.n_episode_steps[p] = len_episode]
        b2 == [b1 EXCEPT
                 !.actions[p] =
                     [r \in 0..(MaxEpisodeLen - 1) |->
                         IF r < len_episode THEN ep[r + 1].action ELSE @[r]],
                 !.rewards[p] =
                     [r \in 0..(MaxEpisodeLen - 1) |->
                         IF r < len_episode THEN ep[r + 1].reward ELSE @[r]],
                 !.dones[p] =
                     [r \in 0..(MaxEpisodeLen - 1) |->
                         IF r < len_episode THEN ep[r + 1].done ELSE @[r]],
                 !.writelog = Append(@, [content |-> ep, relabeled |-> FALSE,
                                         src |-> 0, goal |-> 0, slot |-> p])]
    IN  IF EpisodeObsNdim(ep) >= 2
        THEN Advance(b2, BufferSize \div MaxEpisodeLen)
        ELSE [b1 EXCEPT !.err = "Exception"]

\* per-episode branch: the zipped episode into slot pos, rows 0..len_episode
\* of the observations and rows 0..len_episode-1 of the other arrays; the
\* rows beyond are left as they are.  An episode whose observation array
\* has fewer than 2 dimensions raises before anything is written.
AddTransitionEpisode(b, ep) ==
    LET p == b.pos
        len_episode == Len(ep)
        b1 == [b EXCEPT
                 !.observations[p] =
                     [r \in 0..MaxEpisodeLen |->
                         IF r < len_episode THEN ep[r + 1].obs
                         ELSE IF r = len_episode THEN ep[len_episode].next_obs
                         ELSE @[r]],
                 !.actions[p] =
                     [r \in 0..(MaxEpisodeLen - 1) |->
                         IF r < len_episode THEN ep[r + 1].action ELSE @[r]],
                 !.rewards[p] =
                     [r \in 0..(MaxEpisodeLen - 1) |->
                         IF r < len_episode THEN ep[r + 1].reward ELSE @[r]],
                 !.dones[p] =
                     [r \in 0..(MaxEpisodeLen - 1) |->
                         IF r < len_episode THEN ep[r + 1].done ELSE @[r]],
                 !.n_episode_steps[p] = len_episode,
                 !.writelog = Append(@, [content |-> ep, relabeled |-> FALSE,
                                         src |-> 0, goal |-> 0, slot |-> p])]
    IN  IF EpisodeObsNdim(ep) >= 2
        THEN Advance(b1, BufferSize \div MaxEpisodeLen)
        ELSE [b EXCEPT !.err = "Exception"]

\* ------------------------------------------------- _sample_achieved_goal
\* (variant: "future" may select the source transition itself)
SelectableIdxFromSelf(strategy, len, i) ==
    CASE strategy = "future"  -> i..len
      [] strategy = "final"   -> {len}
      [] strategy = "episode" -> 1..len
      [] OTHER                -> {}

\* The indices np.random.choice can select for transition i of an episode
\* of length len; the empty set under "random", which raises instead.
SelectableIdx(strategy, len, i) ==
    CASE strategy = "future"  -> (i + 1)..len
      [] strategy = "final"   -> {len}
      [] strategy = "episode" -> 1..len
      [] OTHER                -> {}

\* achieved_goal of the observation of the selected transition
AchievedGoalOf(ep, selected_idx) ==
    convert_obs_to_dict(ep[selected_idx].obs).achieved_goal

\* -------------------------------------------------------- _store_episode
\* (variant: the action is not copied into the artificial transition)
RelabelDropAction(tr, goal) ==
    LET obs_dict == [convert_obs_to_dict(tr.obs) EXCEPT !.desired_goal = goal]
        next_obs_dict == [convert_obs_to_dict(tr.next_obs) EXCEPT !.desired_goal = goal]
    IN  [obs |-> convert_dict_to_obs(obs_dict),
         next_obs |-> convert_dict_to_obs(next_obs_dict),
         action |-> 0,
         reward |-> compute_reward(next_obs_dict.achieved_goal, goal),
         done |-> FALSE]

\* (variant: the reward of the source transition is kept)
RelabelKeepReward(tr, goal) ==
    LET obs_dict == [convert_obs_to_dict(tr.obs) EXCEPT !.desired_goal = goal]
        next_obs_dict == [convert_obs_to_dict(tr.next_obs) EXCEPT !.desired_goal = goal]
    IN  [obs |-> convert_dict_to_obs(obs_dict),
         next_obs |-> convert_dict_to_obs(next_obs_dict),
         action |-> tr.action,
         reward |-> tr.reward,
         done |-> FALSE]

\* the artificial transition built from transition tr and goal
Relabel(tr, goal) ==
    LET obs_dict == [convert_obs_to_dict(tr.obs) EXCEPT !.desired_goal = goal]
        next_obs_dict == [convert_obs_to_dict(tr.next_obs) EXCEPT !.desired_goal = goal]
    IN  [obs |-> convert_dict_to_obs(obs_dict),
         next_obs |-> convert_dict_to_obs(next_obs_dict),
         action |-> tr.action,
         reward |-> compute_reward(next_obs_dict.achieved_goal, goal),
         done |-> FALSE]

\* (variant: one goal fewer than n_sampled_goal is stored)
RECURSIVE StoreGoalsShort(_, _, _, _, _)
StoreGoalsShort(b, strategy, ep, i, k) ==
    IF k <= 1 THEN {b}
    ELSE UNION {StoreGoalsShort(AddTransitionFlat(b, Relabel(ep[i], AchievedGoalOf(ep, sel)),
                                                  [relabeled |-> TRUE, src |-> i,
                                                   goal |-> AchievedGoalOf(ep, sel)]),
                                strategy, ep, i, k - 1)
                : sel \in SelectableIdx(strategy, Len(ep), i)}

\* the loop over sampled_goals: k goals still to draw for transition i
RECURSIVE StoreGoals(_, _, _, _, _)
StoreGoals(b, strategy, ep, i, k) ==
    IF k = 0 THEN {b}
    ELSE UNION {StoreGoals(AddTransitionFlat(b, Relabel(ep[i], AchievedGoalOf(ep, sel)),
                                             [relabeled |-> TRUE, src |-> i,
                                              goal |-> AchievedGoalOf(ep, sel)]),
                           strategy, ep, i, k - 1)
                : sel \in SelectableIdx(strategy, Len(ep), i)}

\* (variant: the relabeled copies are stored before their raw transition)
RECURSIVE StoreFromGoalsFirst(_, _, _, _)
StoreFromGoalsFirst(b, strategy, ep, i) ==
    IF i > Len(ep) THEN {b}
    ELSE IF i = Len(ep) /\ strategy = "future"
         THEN {AddTransitionFlat(b, ep[i], [relabeled |-> FALSE, src |-> i, goal |-> 0])}
    ELSE IF strategy = "random" /\ NSampledGoal > 0
         THEN {[AddTransitionFlat(b, ep[i], [relabeled |-> FALSE, src |-> i, goal |-> 0])
                   EXCEPT !.err = "NotImplementedError"]}
    ELSE UNION {StoreFromGoalsFirst(
                    AddTransitionFlat(b2, ep[i], [relabeled |-> FALSE, src |-> i, goal |-> 0]),
                    strategy, ep, i + 1)
                : b2 \in StoreGoals(b, strategy, ep, i, NSampledGoal)}

\* (variant: the last transition of an episode gets no relabeled copies,
\* whatever the strategy)
RECURSIVE StoreFromSkipLast(_, _, _, _)
StoreFromSkipLast(b, strategy, ep, i) ==
    IF i > Len(ep) THEN {b}
    ELSE LET b1 == AddTransitionFlat(b, ep[i], [relabeled |-> FALSE, src |-> i, goal |-> 0])
         IN  IF i = Len(ep) THEN {b1}
             ELSE IF strategy = "random" /\ NSampledGoal > 0
                  THEN {[b1 EXCEPT !.err = "NotImplementedError"]}
             ELSE UNION {StoreFromSkipLast(b2, strategy, ep, i + 1)
                         : b2 \in StoreGoals(b1, strategy, ep, i, NSampledGoal)}

\* the loop over the episode, from transition i on: the set of storages the
\* flush can end in (err names the exception that ended it early)
RECURSIVE StoreFrom(_, _, _, _)
StoreFrom(b, strategy, ep, i) ==
    IF i > Len(ep) THEN {b}
    ELSE LET b1 == AddTransitionFlat(b, ep[i], [relabeled |-> FALSE, src |-> i, goal |-> 0])
         IN  IF i = Len(ep) /\ strategy = "future" THEN {b1}
             ELSE IF strategy = "random" /\ NSampledGoal > 0
                  THEN {[b1 EXCEPT !.err = "NotImplementedError"]}
             ELSE UNION {StoreFrom(b2, strategy, ep, i + 1)
                         : b2 \in StoreGoals(b1, strategy, ep, i, NSampledGoal)}

StoreEpisode(b, lazy, strategy, ep) ==
    IF lazy THEN {AddTransitionEpisode(b, ep)}
            ELSE StoreFrom(b, strategy, ep, 1)

\* ------------------------------------------------------------------ add
\* (variant: every transition is stored at once)
ShouldStoreAlways(done) == TRUE

\* "if done:" -- transitions go to the buffer only when an episode is over
ShouldStore(done) == done

\* add(obs, next_obs, action, reward, done)
Add(obs, next_obs, action, reward, done) ==
    LET tr == [obs |-> obs, next_obs |-> next_obs, action |-> action,
               reward |-> reward, done |-> done]
        ep == Append(episode_transitions, tr)
    IN  IF ShouldStore(done)
        THEN \E b \in StoreEpisode(Buffer, add_her_while_sampling,
                                   goal_selection_strategy, ep) :
               /\ observations' = b.observations
               /\ next_observations' = b.next_observations
               /\ actions' = b.actions
               /\ rewards' = b.rewards
               /\ dones' = b.dones
               /\ n_episode_steps' = b.n_episode_steps
               /\ pos' = b.pos
               /\ full' = b.full
               /\ writelog' = b.writelog
               /\ episode_transitions' = IF b.err = "none" THEN <<>> ELSE ep
               /\ flushed' = [episode |-> ep, pos0 |-> pos, full0 |-> full,
                              start |-> Len(writelog),
                              err |-> b.err, count |-> flushed.count + 1]
               /\ last_call' = [NoCall EXCEPT !.op = "add", !.done = done,
                                               !.err = b.err]
               /\ UNCHANGED config
        ELSE /\ episode_transitions' = ep
             /\ last_call' = [NoCall EXCEPT !.op = "add", !.done = done]
             /\ UNCHANGED <<config, observations, next_observations, actions,
                            rewards, dones, n_episode_steps, pos, full,
                            writelog, flushed>>

\* the observations an episode can start with: well formed ones and, in
\* per-episode mode (the mode that checks the shape), scalar ones
FirstObs(lazy) ==
    (Goals \X Goals) \cup (IF lazy THEN {<<g>> : g \in Goals} ELSE {})

\* The caller is the environment loop: an episode starts at any observation,
\* each observation is the previous next observation, the desired goal is
\* that of the episode, the reward is the environment's, and an episode
\* ends at max_episode_len at the latest.
AddCallUpTo(max_episodes) ==
    /\ flushed.count < max_episodes
    /\ Len(episode_transitions) < MaxEpisodeLen
    /\ \E obs \in (IF episode_transitions = <<>>
                   THEN FirstObs(add_her_while_sampling)
                   ELSE {episode_transitions[Len(episode_transitions)].next_obs}),
          ag \in Goals, action \in Actions, done \in BOOLEAN :
          /\ (Len(episode_transitions) + 1 = MaxEpisodeLen) => done
          /\ IF Len(obs) = 2
             THEN Add(obs, <<ag, obs[2]>>, action, compute_reward(ag, obs[2]), done)
             ELSE Add(obs, <<ag>>, action, -1, done)

AddCall == AddCallUpTo(MaxEpisodes)

\* --------------------------------------------------------------- sample
\* (variant: the slot at pos counts as written)
UpperBoundIncl(lazy, isfull, p) == IF isfull THEN Capacity(lazy) ELSE p + 1

\* upper_bound = full_idx if self.full else self.pos
UpperBound(lazy, isfull, p) == IF isfull THEN Capacity(lazy) ELSE p

\* np.random.randint(0, upper_bound): the slots one row can draw
BatchInds(lazy, isfull, p) == 0..(UpperBound(lazy, isfull, p) - 1)

\* np.floor(np.random.uniform(max_timestep_inds)): the one positional
\* argument is low, and high stays 1.0, so the draw is n + (1 - n) * u with
\* u in [0, 1), which lies in (1, n], and n itself when u = 0.
TimestepInds(n) == 1..n

\* her_inds: rows with np.random.uniform() < future_p, where
\* future_p = 1 - 1 / (1 + n_sampled_goal) is 0 when n_sampled_goal = 0
HerChoices == IF NSampledGoal > 0 THEN BOOLEAN ELSE {FALSE}

\* (np.random.uniform() * (max_timestep_inds - timestep_inds)).astype(int)
FutureOffsets(n, t) == IF n - t > 0 THEN 0..(n - t - 1) ELSE {0}

\* everything one row of the batch draws at random
RowDraws(lazy, isfull, p, steps) ==
    IF lazy
    THEN UNION {UNION {{[slot |-> s, t |-> t, her |-> h, future_t |-> t + 1 + off]
                        : h \in HerChoices, off \in FutureOffsets(steps[s], t)}
                       : t \in TimestepInds(steps[s])}
                : s \in BatchInds(lazy, isfull, p)}
    ELSE {[slot |-> s, t |-> 0, her |-> FALSE, future_t |-> 0]
          : s \in BatchInds(lazy, isfull, p)}

\* a row whose indexing raises IndexError: future_t beyond the observation
\* rows, t + 1 beyond them, or t beyond the action/done/reward rows
OutOfBounds(d) ==
    \/ d.her /\ d.future_t > MaxEpisodeLen
    \/ d.t + 1 > MaxEpisodeLen
    \/ d.t > MaxEpisodeLen - 1

\* one row of the lazy batch, from a copy of the stored episode of its slot
LazyRow(d) ==
    LET episode == observations[d.slot]
        observations_dict == [r \in 0..MaxEpisodeLen |-> convert_obs_to_dict(episode[r])]
        future_ag == observations_dict[d.future_t].achieved_goal
        relabeled_dict == [r \in 0..MaxEpisodeLen |->
                              IF d.her
                              THEN [observations_dict[r] EXCEPT !.desired_goal = future_ag]
                              ELSE observations_dict[r]]
        \* compute_reward over all rows, then [:, 1:]
        row_rewards == [r \in 0..(MaxEpisodeLen - 1) |->
                           compute_reward(relabeled_dict[r + 1].achieved_goal,
                                          relabeled_dict[r + 1].desired_goal)]
        obs == [r \in 0..MaxEpisodeLen |-> convert_dict_to_obs(relabeled_dict[r])]
    IN  [obs |-> obs[d.t],
         action |-> actions[d.slot][d.t],
         next_obs |-> obs[d.t + 1],
         done |-> dones[d.slot][d.t],
         reward |-> row_rewards[d.t]]

\* one row of the flat batch: the stored transition
FlatRow(d) ==
    [obs |-> observations[d.slot],
     action |-> actions[d.slot],
     next_obs |-> next_observations[d.slot],
     done |-> dones[d.slot],
     reward |-> rewards[d.slot]]

\* _get_samples(batch_inds): what the call returns or raises
GetSamples(lazy, strategy, draws) ==
    IF ~lazy
    THEN [NoCall EXCEPT !.op = "sample", !.draws = draws,
                        !.rows = [k \in DOMAIN draws |-> FlatRow(draws[k])]]
    ELSE IF strategy # "future"
    THEN [NoCall EXCEPT !.op = "sample", !.err = "NotImplementedError"]
    ELSE IF \E k \in DOMAIN draws : OutOfBounds(draws[k])
    THEN [NoCall EXCEPT !.op = "sample", !.draws = draws, !.err = "IndexError"]
    ELSE [NoCall EXCEPT !.op = "sample", !.draws = draws,
                        !.rows = [k \in DOMAIN draws |-> LazyRow(draws[k])]]

\* (variant: the goal substituted for the first row of the batch is written
\* back into the stored episode the row was drawn from)
SampleWriteBack(batch_size) ==
    /\ IF UpperBound(add_her_while_sampling, full, pos) = 0
       THEN /\ last_call' = [NoCall EXCEPT !.op = "sample", !.err = "ValueError"]
            /\ UNCHANGED observations
       ELSE \E draws \in [1..batch_size ->
                            RowDraws(add_her_while_sampling, full, pos, n_episode_steps)] :
               /\ last_call' = GetSamples(add_her_while_sampling,
                                          goal_selection_strategy, draws)
               /\ observations' =
                     IF last_call'.err = "none" /\ draws[1].her
                     THEN [observations EXCEPT ![draws[1].slot] =
                             [r \in 0..MaxEpisodeLen |->
                                 <<observations[draws[1].slot][r][1],
                                   observations[draws[1].slot][draws[1].future_t][1]>>]]
                     ELSE observations
    /\ UNCHANGED <<config, episode_transitions, next_observations,
                   actions, rewards, dones, n_episode_steps, pos, full,
                   writelog, flushed>>

\* sample(batch_size)
Sample(batch_size) ==
    /\ IF UpperBound(add_her_while_sampling, full, pos) = 0
       THEN \* randint(0, 0) raises
            last_call' = [NoCall EXCEPT !.op = "sample", !.err = "ValueError"]
       ELSE \E draws \in [1..batch_size ->
                            RowDraws(add_her_while_sampling, full, pos, n_episode_steps)] :
               last_call' = GetSamples(add_her_while_sampling,
                                       goal_selection_strategy, draws)
    /\ UNCHANGED <<config, episode_transitions, observations, next_observations,
                   actions, rewards, dones, n_episode_steps, pos, full,
                   writelog, flushed>>

SampleCall == \E batch_size \in 1..MaxBatch : Sample(batch_size)

Next == AddCall \/ SampleCall

Spec == Init /\ [][Next]_vars

\* batches of more than one row, which can draw the same slot twice
SampleBatchCall == \E batch_size \in 1..MaxBatchRows : Sample(batch_size)

AddBatchCall == AddCallUpTo(MaxEpisodesBatch)

NextBatch == AddBatchCall \/ SampleBatchCall

SpecBatch == Init /\ [][NextBatch]_vars

\* ================================================================ claims
\* the writes of the most recent flush, in order
FlushWrites == SubSeq(writelog, flushed.start + 1, Len(writelog))

EagerFuture == ~add_her_while_sampling /\ goal_selection_strategy = "future"

LazyFuture == add_her_while_sampling /\ goal_selection_strategy = "future"

AchievedGoal(o) == convert_obs_to_dict(o).achieved_goal

DesiredGoal(o) == convert_obs_to_dict(o).desired_goal

\* C1: eager mode, strategy future: every relabeled transition written by a
\* flush carries as desired goal the achieved goal of a transition of the
\* flushed episode strictly later than its source transition, and none has
\* the episode's final transition as its source.
C1_FutureGoalValid ==
    EagerFuture =>
        \A k \in DOMAIN FlushWrites :
            LET w == FlushWrites[k] IN
            w.relabeled =>
                /\ w.src < Len(flushed.episode)
                /\ \E j \in (w.src + 1)..Len(flushed.episode) :
                      /\ DesiredGoal(w.content.obs) = AchievedGoal(flushed.episode[j].obs)
                      /\ DesiredGoal(w.content.next_obs) = AchievedGoal(flushed.episode[j].obs)

\* a flush wrote a relabeled transition whose goal differs from the achieved
\* goal of its own source transition
C1_Witness ==
    /\ EagerFuture
    /\ \E k \in DOMAIN FlushWrites :
          /\ FlushWrites[k].relabeled
          /\ DesiredGoal(FlushWrites[k].content.obs)
                # AchievedGoal(flushed.episode[FlushWrites[k].src].obs)

\* C2: eager mode, strategy future: a flush of an episode of length L makes
\* (L-1) * n_sampled_goal + L slot writes, L raw ones and n_sampled_goal
\* relabeled ones for each of the first L-1 transitions, and pos advances
\* by that number modulo buffer_size.
C2_FlushCount ==
    (EagerFuture /\ flushed.count > 0) =>
        LET L == Len(flushed.episode)
            N == (L - 1) * NSampledGoal + L
        IN  /\ L >= 1
            /\ Len(FlushWrites) = N
            /\ Cardinality({k \in DOMAIN FlushWrites : ~FlushWrites[k].relabeled}) = L
            /\ \A i \in 1..L :
                  Cardinality({k \in DOMAIN FlushWrites :
                                  FlushWrites[k].relabeled /\ FlushWrites[k].src = i})
                     = IF i < L THEN NSampledGoal ELSE 0
            /\ pos = (flushed.pos0 + N) % BufferSize

\* a flush of an episode of maximal length that wrapped the write position
C2_Witness ==
    /\ EagerFuture
    /\ flushed.count > 0
    /\ Len(flushed.episode) = MaxEpisodeLen
    /\ pos < flushed.pos0

\* the rows a successful sample() returned that had their goal substituted
HerRows == {k \in DOMAIN last_call.rows : last_call.draws[k].her}

\* C3: every relabeled transition has done = false: each one written by an
\* eager flush, and each row of a lazy sample() whose desired goal was
\* substituted, the episode's terminal transition included.
C3_RelabeledNotDone ==
    /\ ~add_her_while_sampling =>
          \A k \in DOMAIN writelog :
              writelog[k].relabeled => writelog[k].content.done = FALSE
    /\ (add_her_while_sampling /\ last_call.op = "sample") =>
          \A k \in HerRows : last_call.rows[k].done = FALSE

\* C4: every relabeled transition (written by an eager flush, or returned by
\* a lazy sample()) has reward = compute_reward(achieved goal of its next
\* observation, substituted goal), and the substituted goal as the desired
\* goal of both its observation and its next observation.
C4_RewardConsistent ==
    /\ ~add_her_while_sampling =>
          \A k \in DOMAIN writelog :
              LET w == writelog[k] IN
              w.relabeled =>
                  /\ DesiredGoal(w.content.obs) = w.goal
                  /\ DesiredGoal(w.content.next_obs) = w.goal
                  /\ w.content.reward
                        = (IF AchievedGoal(w.content.next_obs) = w.goal THEN 0 ELSE -1)
    /\ (add_her_while_sampling /\ last_call.op = "sample") =>
          \A k \in HerRows :
              LET d == last_call.draws[k]
                  row == last_call.rows[k]
                  goal == AchievedGoal(observations[d.slot][d.future_t])
              IN  /\ DesiredGoal(row.obs) = goal
                  /\ DesiredGoal(row.next_obs) = goal
                  /\ row.reward
                        = (IF AchievedGoal(row.next_obs) = goal THEN 0 ELSE -1)

\* a lazy sample() returned a row whose substituted goal differs from the
\* stored desired goal and is achieved by the row's next observation
C4_Witness ==
    /\ add_her_while_sampling
    /\ last_call.op = "sample"
    /\ \E k \in HerRows :
          LET d == last_call.draws[k] IN
          /\ DesiredGoal(last_call.rows[k].obs)
                # DesiredGoal(observations[d.slot][d.t])
          /\ last_call.rows[k].reward = 0

\* number of slots of the buffer in its mode
NSlots == IF add_her_while_sampling THEN BufferSize \div MaxEpisodeLen ELSE BufferSize

\* slot i holds what write w wrote: the transition in flat mode; the rows of
\* the episode and its length in per-episode mode
SlotHolds(i, w) ==
    IF add_her_while_sampling
    THEN LET ep == w.content
             L == Len(ep)
         IN  /\ n_episode_steps[i] = L
             /\ \A r \in 0..(L - 1) :
                   /\ observations[i][r] = ep[r + 1].obs
                   /\ actions[i][r] = ep[r + 1].action
                   /\ rewards[i][r] = ep[r + 1].reward
                   /\ dones[i][r] = ep[r + 1].done
             /\ observations[i][L] = ep[L].next_obs
    ELSE /\ observations[i] = w.content.obs
         /\ next_observations[i] = w.content.next_obs
         /\ actions[i] = w.content.action
         /\ rewards[i] = w.content.reward
         /\ dones[i] = w.content.done

\* C5 (as stated): after k <= C slot writes, k = C included, writes 0..k-1
\* are at slots 0..k-1 and full = false.
C5_RingNotFullUpToC ==
    Len(writelog) <= NSlots =>
        /\ \A j \in 0..(Len(writelog) - 1) : SlotHolds(j, writelog[j + 1])
        /\ full = FALSE

\* C5 (amended): after k <= C slot writes, writes 0..k-1 are at slots
\* 0..k-1; for k < C, full = false and pos = k; at k = C the write position
\* has wrapped: pos = 0 and full = true.
C5_RingUpToC ==
    Len(writelog) <= NSlots =>
        /\ \A j \in 0..(Len(writelog) - 1) : SlotHolds(j, writelog[j + 1])
        /\ Len(writelog) < NSlots => (full = FALSE /\ pos = Len(writelog))
        /\ Len(writelog) = NSlots => (full = TRUE /\ pos = 0)

\* exactly C writes have been made, in flat mode, the last by a relabeled copy
C5_Witness ==
    /\ ~add_her_while_sampling
    /\ Len(writelog) = NSlots
    /\ writelog[NSlots].relabeled

\* the latest of the first k writes that went to slot i of C slots
LatestWrite(k, C, i) ==
    CHOOSE j \in 0..(k - 1) :
        /\ j % C = i
        /\ \A j2 \in 0..(k - 1) : j2 % C = i => j2 <= j

\* C6: after k > C slot writes, full = true, pos = k mod C, and every slot i
\* holds the latest write j < k with j mod C = i.
C6_RingWrapped ==
    Len(writelog) > NSlots =>
        /\ full = TRUE
        /\ pos = Len(writelog) % NSlots
        /\ \A i \in 0..(NSlots - 1) :
              SlotHolds(i, writelog[LatestWrite(Len(writelog), NSlots, i) + 1])

\* per-episode mode has wrapped and overwritten slot 0 with another episode
C6_Witness ==
    /\ add_her_while_sampling
    /\ Len(writelog) = NSlots + 1
    /\ NSlots > 1
    /\ writelog[1] # writelog[NSlots + 1]

storage == <<observations, next_observations, actions, rewards, dones,
             n_episode_steps, pos, full>>

\* C8: add(..., done=false) leaves pos, full and every slot unchanged and
\* appends its transition to the accumulator; storage changes only in an
\* add call whose done argument is true.
C8_StoreOnlyWhenDone ==
    [][/\ (last_call'.op = "add" /\ ~last_call'.done) =>
             /\ storage' = storage
             /\ Len(episode_transitions') = Len(episode_transitions) + 1
             /\ SubSeq(episode_transitions', 1, Len(episode_transitions))
                   = episode_transitions
             /\ episode_transitions'[Len(episode_transitions')].done = FALSE
       /\ storage' # storage => (last_call'.op = "add" /\ last_call'.done)
      ]_vars

\* a non-terminal transition is in the accumulator while the buffer already
\* holds an earlier episode
C8_Witness ==
    /\ last_call.op = "add"
    /\ ~last_call.done
    /\ Len(episode_transitions) >= 1
    /\ writelog # <<>>

\* C9: lazy mode, strategy future: every row of a sample() draws a timestep
\* t with 0 <= t < n_episode_steps[slot].
C9_TimestepInEpisode ==
    (LazyFuture /\ last_call.op = "sample") =>
        \A k \in DOMAIN last_call.draws :
            LET d == last_call.draws[k] IN
            0 <= d.t /\ d.t < n_episode_steps[d.slot]

\* C10: lazy mode, strategy future: in every returned row that is relabel
\* eligible, t < future_t <= n_episode_steps[slot], so the substituted goal
\* is read from an observation of the stored episode; the other rows keep
\* their stored desired goal.
C10_FutureInEpisode ==
    (LazyFuture /\ last_call.op = "sample") =>
        \A k \in DOMAIN last_call.rows :
            LET d == last_call.draws[k] IN
            IF d.her
            THEN d.t < d.future_t /\ d.future_t <= n_episode_steps[d.slot]
            ELSE DesiredGoal(last_call.rows[k].obs)
                    = DesiredGoal(observations[d.slot][d.t])

\* the slots of the buffer that have been written
WrittenSlots == {i \in 0..(NSlots - 1) : \E j \in DOMAIN writelog : writelog[j].slot = i}

\* the most recent write to slot i
LastWriteTo(i) ==
    writelog[CHOOSE j \in DOMAIN writelog :
                /\ writelog[j].slot = i
                /\ \A j2 \in DOMAIN writelog : writelog[j2].slot = i => j2 <= j]

\* C11: per-episode mode: every written slot records the length of the
\* episode most recently stored there, and every row of the slot beyond
\* that episode is zero padding.
C11_PaddingIsZero ==
    add_her_while_sampling =>
        \A s \in WrittenSlots :
            LET L == Len(LastWriteTo(s).content) IN
            /\ n_episode_steps[s] = L
            /\ \A r \in 0..MaxEpisodeLen : r > L => observations[s][r] = ZeroObs
            /\ \A r \in 0..(MaxEpisodeLen - 1) :
                  r >= L => /\ actions[s][r] = 0
                            /\ rewards[s][r] = 0
                            /\ dones[s][r] = FALSE

\* C12: per-episode mode: a store of a malformed episode (observation array
\* with fewer than 2 dimensions) fails with an explicit error and leaves
\* pos, full, n_episode_steps and every slot as they were.
C12_MalformedStoreIsAtomic ==
    [][(add_her_while_sampling /\ last_call'.op = "add" /\ last_call'.done
            /\ EpisodeObsNdim(flushed'.episode) < 2)
          => /\ last_call'.err = "Exception"
             /\ pos' = pos
             /\ full' = full
             /\ n_episode_steps' = n_episode_steps
             /\ observations' = observations
             /\ actions' = actions
             /\ rewards' = rewards
             /\ dones' = dones
      ]_vars

\* a malformed episode was refused by a buffer that holds an earlier episode
C12_Witness ==
    /\ add_her_while_sampling
    /\ last_call.op = "add"
    /\ last_call.err = "Exception"
    /\ EpisodeObsNdim(flushed.episode) < 2
    /\ pos = 1
    /\ n_episode_steps[0] > 0

\* C13: the accumulator is empty after every add call whose done argument is
\* true, and between calls it holds exactly the transitions added since the
\* most recent such call, so a flushed episode consists of its own
\* transitions only: one terminal transition, the last.
C13_AccumulatorLifecycle ==
    /\ (last_call.op = "add" /\ last_call.done) => episode_transitions = <<>>
    /\ \A i \in DOMAIN episode_transitions : ~episode_transitions[i].done
    /\ \A i \in DOMAIN flushed.episode :
          flushed.episode[i].done <=> (i = Len(flushed.episode))

\* C13 on the calls that return: the same statement while no flush has raised
C13_LifecycleWhileNoFlushFails ==
    (flushed.err = "none" /\ ~(\E i \in DOMAIN episode_transitions : episode_transitions[i].done))
        => C13_AccumulatorLifecycle

\* C14: eager mode, strategy future: a flush of an episode of length L that
\* starts at write position p writes in episode order, each raw transition
\* followed by its own relabeled copies: with n = n_sampled_goal, write
\* i*(n+1) of the flush is raw transition i, unchanged, at slot
\* (p + i*(n+1)) mod buffer_size, and the n writes after it, for i < L-1, are
\* relabeled copies of transition i at the next n slots.  A write that no
\* later write of the same flush has overwritten is what its slot holds.
C14_FlushOrder ==
    (EagerFuture /\ flushed.count > 0) =>
        LET ep == flushed.episode
            L == Len(ep)
            n == NSampledGoal
            N == Len(FlushWrites)
        IN  /\ \A i \in 0..(L - 1) : i * (n + 1) < N
            /\ \A k \in 0..(N - 1) :
                  LET w == FlushWrites[k + 1]
                      i == k \div (n + 1)
                  IN  /\ w.slot = (flushed.pos0 + k) % BufferSize
                      /\ i < L
                      /\ IF k % (n + 1) = 0
                         THEN ~w.relabeled /\ w.content = ep[i + 1]
                         ELSE /\ w.relabeled
                              /\ w.src = i + 1
                              /\ i < L - 1
                              /\ w.content.action = ep[i + 1].action
                              /\ AchievedGoal(w.content.obs) = AchievedGoal(ep[i + 1].obs)
                              /\ AchievedGoal(w.content.next_obs)
                                    = AchievedGoal(ep[i + 1].next_obs)
                              /\ DesiredGoal(w.content.obs) = w.goal
                      /\ (k >= N - BufferSize) =>
                            /\ observations[w.slot] = w.content.obs
                            /\ next_observations[w.slot] = w.content.next_obs
                            /\ actions[w.slot] = w.content.action
                            /\ rewards[w.slot] = w.content.reward
                            /\ dones[w.slot] = w.content.done

\* a flush of a two-step episode started at a slot other than 0 and stored a
\* relabeled copy whose goal differs from the episode's desired goal
C14_Witness ==
    /\ EagerFuture
    /\ flushed.count > 1
    /\ flushed.pos0 > 0
    /\ Len(flushed.episode) = 2
    /\ Len(FlushWrites) > 2
    /\ FlushWrites[2].relabeled
    /\ DesiredGoal(FlushWrites[2].content.obs) # DesiredGoal(flushed.episode[1].obs)
    /\ dones[(flushed.pos0 + 1) % BufferSize] = FALSE
    /\ dones[(flushed.pos0 + 2) % BufferSize] = TRUE

\* C15: eager mode: a relabeled transition differs from its source
\* transition in desired goal, reward and done only (same action, same
\* achieved goals), and relabeling leaves the episode as it was: every raw
\* transition of the flush, also one written after relabeled copies of
\* earlier transitions, is the transition that was added, and every
\* substituted goal is an achieved goal of the episode as added.
C15_RelabelKeepsSource ==
    (~add_her_while_sampling /\ flushed.count > 0) =>
        \A k \in DOMAIN FlushWrites :
            LET w == FlushWrites[k]
                src == flushed.episode[w.src]
            IN  IF w.relabeled
                THEN /\ w.content.action = src.action
                     /\ AchievedGoal(w.content.obs) = AchievedGoal(src.obs)
                     /\ AchievedGoal(w.content.next_obs) = AchievedGoal(src.next_obs)
                     /\ \E j \in DOMAIN flushed.episode :
                           w.goal = AchievedGoal(flushed.episode[j].obs)
                ELSE w.content = src

\* a raw transition was written after a relabeled copy of an earlier
\* transition and still carries its own desired goal, not the substituted one
C15_Witness ==
    /\ ~add_her_while_sampling
    /\ Len(FlushWrites) >= 3
    /\ FlushWrites[2].relabeled
    /\ ~FlushWrites[3].relabeled
    /\ DesiredGoal(FlushWrites[3].content.obs) # FlushWrites[2].goal
    /\ FlushWrites[2].content.reward # flushed.episode[1].reward

\* C16: in every reachable state 0 <= pos < C, with C the capacity of the
\* mode, and full is monotone: once true, no operation sets it back to false.
C16_PosInRangeFullMonotone ==
    /\ [](0 <= pos /\ pos < NSlots)
    /\ [][full => full']_vars

\* a full buffer whose write position has moved on after the wrap
C16_Witness ==
    /\ full
    /\ pos > 0
    /\ Len(writelog) > NSlots

EagerFinal == ~add_her_while_sampling /\ goal_selection_strategy = "final"

\* C17: eager mode, strategy final: a flush of an episode of length L makes
\* L * (1 + n_sampled_goal) writes; every transition, the last one included,
\* is written once raw and n_sampled_goal times relabeled, and the desired
\* goal of each relabeled copy is the achieved goal of the episode's last
\* transition.
C17_FinalRelabelsAll ==
    (EagerFinal /\ flushed.count > 0) =>
        LET L == Len(flushed.episode)
            last_goal == AchievedGoal(flushed.episode[L].obs)
        IN  /\ Len(FlushWrites) = L * (1 + NSampledGoal)
            /\ \A i \in 1..L :
                  /\ Cardinality({k \in DOMAIN FlushWrites :
                                    ~FlushWrites[k].relabeled /\ FlushWrites[k].src = i}) = 1
                  /\ Cardinality({k \in DOMAIN FlushWrites :
                                    FlushWrites[k].relabeled /\ FlushWrites[k].src = i})
                        = NSampledGoal
            /\ \A k \in DOMAIN FlushWrites :
                  FlushWrites[k].relabeled =>
                      /\ DesiredGoal(FlushWrites[k].content.obs) = last_goal
                      /\ DesiredGoal(FlushWrites[k].content.next_obs) = last_goal

\* a flush under "final" of an episode of maximal length in which the first
\* transition was relabeled with a goal that is not its own achieved goal,
\* and the last transition was relabeled too
C17_Witness ==
    /\ EagerFinal
    /\ flushed.count > 0
    /\ Len(flushed.episode) = MaxEpisodeLen
    /\ AchievedGoal(flushed.episode[1].obs)
          # AchievedGoal(flushed.episode[MaxEpisodeLen].obs)
    /\ \E k \in DOMAIN FlushWrites :
          /\ FlushWrites[k].relabeled
          /\ FlushWrites[k].src = MaxEpisodeLen
    /\ \E k \in DOMAIN FlushWrites :
          /\ FlushWrites[k].relabeled
          /\ FlushWrites[k].src = 1
          /\ DesiredGoal(FlushWrites[k].content.obs)
                = AchievedGoal(flushed.episode[MaxEpisodeLen].obs)

\* C18: sample() is read-only in both modes: a sample(batch_size) call,
\* whether it returns or raises, with or without goal substitution, with or
\* without a slot drawn twice, leaves pos, full, n_episode_steps, the stored
\* observations, next observations, actions, rewards and dones, and the
\* accumulator unchanged.
C18_SampleReadOnly ==
    [][last_call'.op = "sample" =>
          UNCHANGED <<pos, full, n_episode_steps, observations, next_observations,
                      actions, rewards, dones, episode_transitions>>]_vars

\* a per-episode batch that drew one slot twice, substituted the goal in the
\* first row only, and returned the substituted goal in the first row and
\* the stored goal, which differs, in the second
C18_Witness ==
    /\ last_call.op = "sample"
    /\ last_call.err = "none"
    /\ add_her_while_sampling
    /\ Len(last_call.draws) = 2
    /\ last_call.draws[1].slot = last_call.draws[2].slot
    /\ last_call.draws[1].t = last_call.draws[2].t
    /\ last_call.draws[1].her
    /\ ~last_call.draws[2].her
    /\ DesiredGoal(last_call.rows[1].obs) # DesiredGoal(last_call.rows[2].obs)
    /\ DesiredGoal(last_call.rows[2].obs)
          = DesiredGoal(observations[last_call.draws[2].slot][last_call.draws[2].t])

\* C19: a failing flush is atomic: after an add call with done = true that
\* failed with NotImplementedError no transition of the episode has been
\* written, pos and full are as before the call, and the accumulator is
\* empty.
C19_FailedFlushIsAtomic ==
    (last_call.op = "add" /\ last_call.err = "NotImplementedError") =>
        /\ Len(FlushWrites) = 0
        /\ pos = flushed.pos0
        /\ full = flushed.full0
        /\ episode_transitions = <<>>

====
